---- MODULE Spec2Model ----
(***************************************************************************)
(* Model of src/main.py: the Spotify -> Tidal playlist synchroniser.       *)
(*                                                                         *)
(* Two specifications share this module:                                   *)
(*   SpecMatch  one call of search_tidal_by_name_and_artist, stepped       *)
(*              through its prompt loop, for every source track, search    *)
(*              result and operator input within the bounds;               *)
(*   Spec       main(): runs of the whole program over the configured      *)
(*              playlists, with process interruption, bulk-add failure     *)
(*              and re-runs against the state file.                        *)
(***************************************************************************)
EXTENDS Integers, Sequences, FiniteSets, TLC

(***************************************************************************)
(* Bounds of the model.                                                    *)
(***************************************************************************)
\* longest search result list handed to the matcher
MaxCands == 3
\* most prompts answered in one call of the matcher
MaxPrompts == 2
\* length of source playlist "p"
MaxTracks == 3
\* number of times the program is started
MaxRuns == 2
\* main.py:235 sets batch_size = 100; the model scales the chunk down so
\* that full chunks occur within MaxTracks source tracks
batch_size == 2
\* most fragments an input string of clean is put together from
MaxLen == 4

(***************************************************************************)
(* Python values.                                                          *)
(***************************************************************************)
None == [none |-> TRUE]

Min(a, b) == IF a < b THEN a ELSE b

Range(s) == {s[k] : k \in 1..Len(s)}

\* sequences over S of length at most k
SeqsUpTo(S, k) == UNION {[1..m -> S] : m \in 0..k}

(***************************************************************************)
(* Operator input: a line of text is a sequence of characters.             *)
(* int(read) (main.py:198) accepts an optional sign followed by one or     *)
(* more decimal digits and raises ValueError otherwise.                    *)
(***************************************************************************)
DigitChars == {"0", "1", "2", "3", "4", "5", "6", "7", "8", "9"}

DigitVal(c) ==
    CASE c = "0" -> 0 [] c = "1" -> 1 [] c = "2" -> 2 [] c = "3" -> 3
      [] c = "4" -> 4 [] c = "5" -> 5 [] c = "6" -> 6 [] c = "7" -> 7
      [] c = "8" -> 8 [] c = "9" -> 9

RECURSIVE DigitsVal(_)
DigitsVal(s) ==
    IF s = <<>> THEN 0
    ELSE 10 * DigitsVal(SubSeq(s, 1, Len(s) - 1)) + DigitVal(s[Len(s)])

AllDigits(s) == Len(s) > 0 /\ \A k \in 1..Len(s) : s[k] \in DigitChars

\* does int(read) raise ValueError
ValueError(read) ==
    IF Len(read) > 0 /\ read[1] \in {"-", "+"}
    THEN ~AllDigits(Tail(read))
    ELSE ~AllDigits(read)

\* int(read), for a read that parses
int(read) ==
    IF read[1] = "-" THEN 0 - DigitsVal(Tail(read))
    ELSE IF read[1] = "+" THEN DigitsVal(Tail(read))
    ELSE DigitsVal(read)

\* the lines the operator may type
Reads ==
    { <<>>, <<"x">>, <<"0">>, <<"1">>, <<"2">>, <<"3">>, <<"4">>, <<"5">>,
      <<"9">>, <<"1", "0">>, <<"-", "1">>, <<"1", "x">> }

(***************************************************************************)
(* Tracks.  A title is modelled as its set of whitespace-delimited         *)
(* tokens, each token one letter long.                                     *)
(***************************************************************************)
ISRCs == {"I1", "I2"}

Names == { {"a"}, {"a", "b"}, {"b", "c"} }

\* an entry of fetch_spotify_playlist_tracks (main.py:127-129)
SourceTrack(q, nm, i) == [query |-> q, name |-> nm, isrc |-> i]

\* a tidalapi.Track of a search result: id, name, isrc
TidalTrack(k, nm, i) == [id |-> k, name |-> nm, isrc |-> i]

(***************************************************************************)
(* fuzz.token_set_ratio (main.py:167) on titles of one-letter tokens,      *)
(* followed by .round().astype(int).                                       *)
(***************************************************************************)
\* len(" ".join(toks)) for k one-letter tokens
JoinedLen(k) == IF k = 0 THEN 0 ELSE 2 * k - 1

\* round(100 - 100 * dist / lensum): round half to even, as numpy rounds
NormRound(dist, lensum) ==
    IF lensum = 0 THEN 100
    ELSE LET num == 100 * (lensum - dist)
             q   == num \div lensum
             r2  == 2 * (num % lensum)
         IN  IF r2 > lensum THEN q + 1
             ELSE IF r2 < lensum THEN q
             ELSE IF q % 2 = 0 THEN q ELSE q + 1

Max3(a, b, c) ==
    IF a >= b /\ a >= c THEN a ELSE IF b >= c THEN b ELSE c

token_set_ratio(s1, s2) ==
    LET sect     == s1 \cap s2
        p        == Cardinality(s1 \ s2)
        q        == Cardinality(s2 \ s1)
        sect_len == JoinedLen(Cardinality(sect))
        sep      == IF sect_len # 0 THEN 1 ELSE 0
        ab_len   == JoinedLen(p)
        ba_len   == JoinedLen(q)
        sect_ab_len == sect_len + sep + ab_len
        sect_ba_len == sect_len + sep + ba_len
        \* the two differences share no letter: their longest common
        \* subsequence is made of separators only
        lcs      == IF p = 0 \/ q = 0 THEN 0 ELSE Min(p, q) - 1
        dist     == ab_len + ba_len - 2 * lcs
        result   == NormRound(dist, sect_ab_len + sect_ba_len)
    IN  IF s1 = {} \/ s2 = {} THEN 0
        ELSE IF sect # {} /\ (p = 0 \/ q = 0) THEN 100
        ELSE IF sect_len = 0 THEN result
        ELSE Max3(result,
                  NormRound(sep + ab_len, sect_len + sect_ab_len),
                  NormRound(sep + ba_len, sect_len + sect_ba_len))

\* main.py:166-170
fuzzy_scores(tracks, name) ==
    [k \in 1..Len(tracks) |-> token_set_ratio(name, tracks[k].name)]

(***************************************************************************)
(* The target catalog.  Six tracks: pairings of an ISRC with a title, the  *)
(* last one with the empty string as its isrc.                             *)
(***************************************************************************)
CatalogName(k) ==
    CASE k % 3 = 1 -> {"a"} [] k % 3 = 2 -> {"a", "b"} [] OTHER -> {"b", "c"}

CatalogIsrc(k) == IF k <= 3 THEN "I1" ELSE IF k <= 5 THEN "I2" ELSE ""

Catalog == {TidalTrack(k, CatalogName(k), CatalogIsrc(k)) : k \in 1..6}

\* what session.search (main.py:155-156) may return to the matcher: up to
\* MaxCands distinct catalog tracks in any order
SearchResults ==
    {s \in SeqsUpTo(Catalog, MaxCands) :
        \A j, k \in 1..Len(s) : j # k => s[j] # s[k]}

\* the source tracks handed to the matcher; "I3" is an ISRC that no track
\* of the target catalog carries, "" is external_ids["isrc"] (main.py:124)
\* holding the empty string
SourceTracks ==
    {SourceTrack("q", nm, i) : nm \in Names, i \in ISRCs \cup {"I3", ""}}

(***************************************************************************)
(* search_tidal_by_name_and_artist (main.py:150-209).                      *)
(***************************************************************************)
\* main.py:172
n == 9

\* main.py:162-164: the first track of the result whose isrc equals isrc
exact_match(tracks, isrc) ==
    IF \E k \in 1..Len(tracks) : tracks[k].isrc = isrc
    THEN tracks[CHOOSE k \in 1..Len(tracks) :
                   /\ tracks[k].isrc = isrc
                   /\ \A j \in 1..(k - 1) : tracks[j].isrc # isrc]
    ELSE None

\* main.py:173: np.argsort(fuzzy_scores)[::-1][:n].  argsort's default sort
\* is not stable, so among equal scores any order may come out: the set of
\* index lists (1-based) the expression can evaluate to.
ArgsortDescTop(scores) ==
    LET N == Len(scores)
        asc == {p \in [1..N -> 1..N] :
                   /\ \A j, k \in 1..N : j # k => p[j] # p[k]
                   /\ \A k \in 1..(N - 1) : scores[p[k]] <= scores[p[k + 1]]}
    IN  {[k \in 1..Min(n, N) |-> p[N + 1 - k]] : p \in asc}

\* search_begin with the auto branch (main.py:175-182) taken before the exact
\* pass (main.py:162-164)
search_begin_auto_first(tracks, track, auto) ==
    IF tracks = <<>> THEN [kind |-> "return", value |-> None]
    ELSE IF auto THEN [kind |-> "return", value |-> tracks[1]]
    ELSE IF exact_match(tracks, track.isrc) # None
    THEN [kind |-> "return", value |-> exact_match(tracks, track.isrc)]
    ELSE [kind |-> "prompt", value |-> None]

\* search_begin with a minimum score on the auto branch: a first candidate
\* scoring under 50 is not returned
search_begin_floor(tracks, track, auto) ==
    IF tracks = <<>> THEN [kind |-> "return", value |-> None]
    ELSE IF exact_match(tracks, track.isrc) # None
    THEN [kind |-> "return", value |-> exact_match(tracks, track.isrc)]
    ELSE IF auto
    THEN [kind |-> "return",
          value |-> IF fuzzy_scores(tracks, track.name)[1] < 50
                    THEN None ELSE tracks[1]]
    ELSE [kind |-> "prompt", value |-> None]

\* main.py:158-182: the call up to the prompt loop.  kind "return" carries
\* the returned value; kind "prompt" means the candidates are displayed and
\* the prompt loop is entered.
search_begin(tracks, track, auto) ==
    IF tracks = <<>> THEN [kind |-> "return", value |-> None]
    ELSE IF exact_match(tracks, track.isrc) # None
    THEN [kind |-> "return", value |-> exact_match(tracks, track.isrc)]
    ELSE IF auto THEN [kind |-> "return", value |-> tracks[1]]
    ELSE [kind |-> "prompt", value |-> None]

\* main.py:192-209: one iteration of the prompt loop on the line read.
\* "continue" re-prompts; "IndexError" is tracks[selected - 1] past the end
\* of the result list.
prompt_step(tracks, read) ==
    IF Len(read) = 0 THEN [kind |-> "return", value |-> None]
    ELSE IF ValueError(read) THEN [kind |-> "continue", value |-> None]
    ELSE IF int(read) \notin 1..n THEN [kind |-> "continue", value |-> None]
    ELSE IF int(read) > Len(tracks) THEN [kind |-> "IndexError", value |-> None]
    ELSE [kind |-> "return", value |-> tracks[int(read)]]

\* main.py:191-209: the prompt loop on the lines the operator types, in
\* order; kind "input" when the lines run out while the loop still prompts
RECURSIVE prompt_loop(_, _)
prompt_loop(tracks, reads) ==
    IF reads = <<>> THEN [kind |-> "input", value |-> None]
    ELSE LET r == prompt_step(tracks, Head(reads))
         IN  IF r.kind = "continue" THEN prompt_loop(tracks, Tail(reads))
             ELSE r

\* main.py:150-209: the whole call
search_tidal_by_name_and_artist(tracks, track, auto, reads) ==
    LET b == search_begin(tracks, track, auto)
    IN  IF b.kind = "return" THEN b ELSE prompt_loop(tracks, reads)

(***************************************************************************)
(* Configuration and the two catalogs as main() sees them.                 *)
(***************************************************************************)
\* conf["spotify"]["playlists"] (main.py:237) and conf["prefix"]
\* (main.py:232); names are sequences of characters
conf_playlists == << <<"q">>, <<"p">> >>

prefix == <<"t">>

\* the source tracks of the playlists: A has its ISRC in the target
\* catalog, B has candidates but none with its ISRC, C has no candidate
TrackA == SourceTrack("qa", {"a"}, "I1")
TrackB == SourceTrack("qb", {"b", "c"}, "I3")
TrackC == SourceTrack("qc", {"a"}, "I3")

Pool == {TrackA, TrackB, TrackC}

CatalogTrack(k) == TidalTrack(k, CatalogName(k), CatalogIsrc(k))

\* session.search (main.py:155-156) in the runs of main(): the target
\* catalog answers a query the same way in every run
search(query) ==
    CASE query = "qa" -> <<CatalogTrack(5), CatalogTrack(1)>>
      [] query = "qb" -> <<CatalogTrack(2), CatalogTrack(6)>>
      [] OTHER -> <<>>

\* the lines an operator types for one track in a run of main(): skip,
\* the first candidate, a position past the candidates, a rejected line and
\* then the first candidate
ReadSeqs ==
    { << <<>> >>, << <<"1">> >>, << <<"3">> >>, << <<"x">>, <<"1">> >> }

(***************************************************************************)
(* Dictionaries (the state document): functions on a set of keys.          *)
(***************************************************************************)
EmptyDict == [k \in {} |-> None]

Put(d, key, v) == [k \in (DOMAIN d) \cup {key} |-> IF k = key THEN v ELSE d[k]]

\* load_state that never reads the state file
load_state_fresh(disk) == EmptyDict

\* load_json(state_file) or {} (main.py:33-38, 227); disk = None: no file
load_state(disk) == IF disk = None THEN EmptyDict ELSE disk

\* find_spotify_playlist_by_name (main.py:102-110) on the source library
find_spotify_playlist_by_name(sp, name) == name \in DOMAIN sp

\* ensure_tidal_playlist without the loop of main.py:141-144
ensure_tidal_playlist_always_creates(listing, pfx, name) ==
    [listing  |-> Append(listing, [name |-> pfx \o name, items |-> <<>>]),
     playlist |-> Len(listing) + 1]

\* ensure_tidal_playlist (main.py:136-147) on the user's playlists: the
\* listing afterwards and the index of the playlist returned
ensure_tidal_playlist(listing, pfx, name) ==
    LET full == pfx \o name
    IN  IF \E k \in 1..Len(listing) : listing[k].name = full
        THEN [listing  |-> listing,
              playlist |-> CHOOSE k \in 1..Len(listing) :
                               /\ listing[k].name = full
                               /\ \A j \in 1..(k - 1) : listing[j].name # full]
        ELSE [listing  |-> Append(listing, [name |-> full, items |-> <<>>]),
              playlist |-> Len(listing) + 1]

\* tracks[start_idx:] keeping every track (no resumption)
slice_all(tracks, start_idx) == tracks

\* tracks[start_idx:] (main.py:262)
slice(tracks, start_idx) == SubSeq(tracks, start_idx + 1, Len(tracks))

\* add_tracks sending the ids of the batch last to first
add_tracks_reversed(listing, playlist, batch) ==
    IF batch = <<>> THEN listing
    ELSE [listing EXCEPT ![playlist].items =
              @ \o [k \in 1..Len(batch) |-> batch[Len(batch) + 1 - k].id]]

\* add_tracks (main.py:212-217) when playlist.add succeeds: the listing
\* afterwards; an empty batch makes no call
add_tracks(listing, playlist, batch) ==
    IF batch = <<>> THEN listing
    ELSE [listing EXCEPT ![playlist].items =
              @ \o [k \in 1..Len(batch) |-> batch[k].id]]

\* add_calls without the test of main.py:213-214: an empty batch is sent
add_calls_unguarded(batch) == <<Len(batch)>>

\* add_tracks (main.py:212-217): the number of ids of each playlist.add call
\* it makes for the batch
add_calls(batch) == IF batch = <<>> THEN <<>> ELSE <<Len(batch)>>

\* advance that does not extend the missing list
advance_drops_missing(entry, tracks, missing) ==
    [idx |-> entry.idx + Len(tracks), missing |-> entry.missing]

\* advance that sets idx to the number of tracks of this run
advance_resets(entry, tracks, missing) ==
    [idx |-> Len(tracks), missing |-> entry.missing \o missing]

\* main.py:281-282: the state entry of the playlist after its loop
advance(entry, tracks, missing) ==
    [idx |-> entry.idx + Len(tracks), missing |-> entry.missing \o missing]

(***************************************************************************)
(* clean (main.py:46-63).  Strings are sequences of characters.            *)
(***************************************************************************)
\* main.py:47-56
replace_list ==
    << <<"&">>, <<"@">>, <<"(">>, <<")">>,
       <<"f", "t", ".">>,
       <<"f", "e", "a", "t", ".">>,
       <<"f", "e", "a", "t", "u", "r", "i", "n", "g">>,
       <<"o", "r", "i", "g", "i", "n", "a", "l", " ", "m", "i", "x">> >>

\* str.lower (main.py:58) on the characters the inputs are made of
lower(s) == [k \in 1..Len(s) |-> IF s[k] = "F" THEN "f" ELSE s[k]]

\* s begins with w
StartsWith(s, w) == Len(w) <= Len(s) /\ SubSeq(s, 1, Len(w)) = w

\* re.sub(pattern, "", text) (main.py:59-60): scanning from the left, at
\* each position the first alternative of replace_list that matches there is
\* removed and the scan goes on behind it; one pass
RECURSIVE remove_noise(_)
remove_noise(s) ==
    IF s = <<>> THEN <<>>
    ELSE IF \E k \in 1..Len(replace_list) : StartsWith(s, replace_list[k])
    THEN LET k == CHOOSE j \in 1..Len(replace_list) :
                      /\ StartsWith(s, replace_list[j])
                      /\ \A i \in 1..(j - 1) : ~StartsWith(s, replace_list[i])
         IN  remove_noise(SubSeq(s, Len(replace_list[k]) + 1, Len(s)))
    ELSE <<Head(s)>> \o remove_noise(Tail(s))

\* re.sub(r"[-]", " ", text) (main.py:61)
hyphens_to_spaces(s) == [k \in 1..Len(s) |-> IF s[k] = "-" THEN " " ELSE s[k]]

\* re.sub(r"\s+", " ", text) (main.py:62)
RECURSIVE collapse_whitespace(_)
collapse_whitespace(s) ==
    IF Len(s) <= 1 THEN s
    ELSE IF s[1] = " " /\ s[2] = " " THEN collapse_whitespace(Tail(s))
    ELSE <<Head(s)>> \o collapse_whitespace(Tail(s))

\* str.strip (main.py:62)
RECURSIVE strip(_)
strip(s) ==
    IF s = <<>> THEN s
    ELSE IF Head(s) = " " THEN strip(Tail(s))
    ELSE IF s[Len(s)] = " " THEN strip(SubSeq(s, 1, Len(s) - 1))
    ELSE s

\* main.py:46-63
clean(s) ==
    strip(collapse_whitespace(hyphens_to_spaces(remove_noise(lower(s)))))

\* the pieces the input strings are put together from
Fragments ==
    { <<"f">>, <<"t">>, <<".">>, <<"(">>, <<"-">>, <<" ">>, <<"F">>,
      <<"e", "a">>, <<"o", "r", "i", "g", "i", "n", "a", "l">>,
      <<"m", "i", "x">> }

\* the concatenation of a sequence of strings
RECURSIVE Concat(_)
Concat(ss) == IF ss = <<>> THEN <<>> ELSE Head(ss) \o Concat(Tail(ss))

\* the strings given to clean: up to MaxLen fragments in a row
Texts == {Concat(ss) : ss \in SeqsUpTo(Fragments, MaxLen)}

(***************************************************************************)
(* State.                                                                  *)
(***************************************************************************)
VARIABLES
    \* ---- one call of the matcher (SpecMatch) ----
    track,      \* the source track of the call
    results,    \* the tracks session.search returned
    mpc,        \* "call" | "prompt" | "returned" | "raised"
    ret,        \* the value returned
    top_n,      \* indices of the candidates displayed, in display order
    read,       \* the last line read from the operator
    prompts,    \* number of lines read so far
    \* ---- shared ----
    auto,       \* conf["auto"]
    \* ---- the world of main() (Spec) ----
    sp,         \* source library: playlist name -> its tracks
    tidal,      \* the target user's playlists: sequence of [name, items]
    disk,       \* content of state.json, None while the file is absent
    \* ---- the process running main() ----
    pc,         \* "off" | "lookup" | "loop" | "flush" | "save"
    run,        \* number of times the program has been started
    pl,         \* position in conf_playlists of playlist_name
    state,      \* the state dictionary in memory
    tracks,     \* the source tracks left to process (main.py:262)
    pos,        \* number of entries of tracks the for loop has handled
    tidal_playlist, \* index in tidal of the playlist of main.py:254
    done, batch, missing, start_idx,
    \* ---- observation of the runs ----
    batch_pos,  \* source position (1-based) of each entry of batch
    missing_pos,\* source position of each entry of missing
    adds,       \* name -> position -> times its counterpart was added
    skips,      \* name -> positions persisted as missing
    last_flush, \* value of pos at the last successful flush in the loop
    calls,      \* playlist.add calls made for the current playlist
    failure,    \* the last bulk-add failure: the run, the playlist name,
                \* the source tracks handled when the run last flushed,
                \* the source positions of the failed chunk, the source
                \* tracks handled before the first of them
    at_start,   \* [disk, adds] when the run started, kept after main returns
    call_sizes, \* number of ids of each playlist.add call for the playlist
    matches,    \* [pos, id] of each track found for the playlist, in order
    items_base, \* length of the target playlist at main.py:254
    report,     \* the last summary logged at main.py:289-291 in this run
    created,    \* the names given to user.create_playlist, in call order
    \* clean (main.py:46-63)
    text,       \* the string given to clean
    cleaned     \* what clean returned: for text, then for its own result

mvars == <<track, results, mpc, ret, top_n, read, prompts>>

wvars == <<sp, tidal, disk>>

pvars == <<pc, run, pl, state, tracks, pos, tidal_playlist,
           done, batch, missing, start_idx>>

ovars == <<batch_pos, missing_pos, adds, skips, last_flush, calls, failure,
           at_start>>

gvars == <<call_sizes, matches, items_base, report, created>>

cvars == <<text, cleaned>>

vars == <<mvars, auto, wvars, pvars, ovars, gvars, cvars>>

\* the matcher's variables while main() is modelled
MatcherIdle ==
    /\ track = None /\ results = <<>> /\ mpc = "off" /\ ret = None
    /\ top_n = <<>> /\ read = <<>> /\ prompts = 0

\* the variables of a process that is not running
ProcessOff ==
    /\ pl = 0 /\ state = EmptyDict /\ tracks = <<>> /\ pos = 0
    /\ tidal_playlist = 0 /\ done = 0 /\ batch = <<>> /\ missing = <<>>
    /\ start_idx = 0 /\ batch_pos = <<>> /\ missing_pos = <<>>
    /\ last_flush = 0 /\ calls = 0
    /\ call_sizes = <<>> /\ matches = <<>> /\ items_base = 0

\* the variables of main() while the matcher is modelled alone
MainIdle ==
    /\ sp = EmptyDict /\ tidal = <<>> /\ disk = None
    /\ pc = "off" /\ run = 0 /\ ProcessOff
    /\ adds = EmptyDict /\ skips = EmptyDict /\ failure = None
    /\ at_start = None /\ report = None /\ created = <<>>

\* the variables of clean while another function is modelled
CleanIdle == text = <<>> /\ cleaned = <<>>

(***************************************************************************)
(* SpecMatch: one call of search_tidal_by_name_and_artist.                 *)
(***************************************************************************)
MInit ==
    /\ track \in SourceTracks
    /\ results \in SearchResults
    /\ auto \in BOOLEAN
    /\ mpc = "call"
    /\ ret = None
    /\ top_n = <<>>
    /\ read = <<>>
    /\ prompts = 0
    /\ MainIdle
    /\ CleanIdle

\* main.py:151-189: search, exact pass, scores, auto return or display
MCall ==
    /\ mpc = "call"
    /\ LET b == search_begin(results, track, auto)
       IN  IF b.kind = "return"
           THEN /\ mpc' = "returned"
                /\ ret' = b.value
                /\ top_n' = <<>>
           ELSE /\ mpc' = "prompt"
                /\ ret' = None
                /\ top_n' \in ArgsortDescTop(fuzzy_scores(results, track.name))
    /\ UNCHANGED <<track, results, read, prompts, auto, wvars, pvars, ovars,
                   gvars, cvars>>

\* main.py:191-209: the operator types one line
MPrompt ==
    /\ mpc = "prompt"
    /\ prompts < MaxPrompts
    /\ \E rd \in Reads :
         LET r == prompt_step(results, rd)
         IN  /\ read' = rd
             /\ prompts' = prompts + 1
             /\ mpc' = CASE r.kind = "return" -> "returned"
                         [] r.kind = "continue" -> "prompt"
                         [] OTHER -> "raised"
             /\ ret' = r.value
    /\ UNCHANGED <<track, results, top_n, auto, wvars, pvars, ovars, gvars, cvars>>

MNext == MCall \/ MPrompt

SpecMatch == MInit /\ [][MNext]_vars

(***************************************************************************)
(* SpecClean: clean applied to a string, then to its own result.           *)
(***************************************************************************)
CInit ==
    /\ text \in Texts
    /\ cleaned = <<>>
    /\ MatcherIdle
    /\ auto = FALSE
    /\ MainIdle

\* clean(text)
CleanOnce ==
    /\ text # <<>>
    /\ cleaned = <<>>
    /\ cleaned' = <<clean(text)>>
    /\ UNCHANGED <<text, mvars, auto, wvars, pvars, ovars, gvars>>

\* clean(clean(text))
CleanAgain ==
    /\ Len(cleaned) = 1
    /\ cleaned' = Append(cleaned, clean(cleaned[1]))
    /\ UNCHANGED <<text, mvars, auto, wvars, pvars, ovars, gvars>>

CNext == CleanOnce \/ CleanAgain

SpecClean == CInit /\ [][CNext]_vars

(***************************************************************************)
(* Spec: main() (main.py:220-291), started up to MaxRuns times.            *)
(***************************************************************************)
\* the source libraries: playlist "p" always exists with MaxTracks tracks,
\* playlist "q" is absent from the source catalog or holds one track
SourceLibraries ==
    {Put(q, <<"p">>, ts) :
        ts \in [1..MaxTracks -> Pool],
        q \in {EmptyDict, Put(EmptyDict, <<"q">>, <<TrackA>>)}}

\* the target user's playlists before the first run: one playlist, named as
\* source playlist "p" without the prefix, or with it
TargetListings ==
    { <<[name |-> <<"p">>, items |-> <<7>>]>>,
      <<[name |-> prefix \o <<"p">>, items |-> <<>>]>> }

\* a counter per source track of every source playlist
ZeroCounts(lib) == [nm \in DOMAIN lib |-> [k \in 1..Len(lib[nm]) |-> 0]]

Init ==
    /\ MatcherIdle
    /\ auto \in BOOLEAN
    /\ sp \in SourceLibraries
    /\ tidal \in TargetListings
    /\ disk = None
    /\ pc = "off" /\ run = 0 /\ ProcessOff
    /\ adds = ZeroCounts(sp)
    /\ skips = [nm \in DOMAIN sp |-> {}]
    /\ failure = None
    /\ at_start = None
    /\ report = None
    /\ created = <<>>
    /\ CleanIdle

\* main.py:237
playlist_name == conf_playlists[pl]

\* the process ends (return from main, exception or kill): its memory is gone
Halt ==
    /\ pc' = "off"
    /\ pl' = 0 /\ state' = EmptyDict /\ tracks' = <<>> /\ pos' = 0
    /\ tidal_playlist' = 0 /\ done' = 0 /\ batch' = <<>> /\ missing' = <<>>
    /\ start_idx' = 0 /\ batch_pos' = <<>> /\ missing_pos' = <<>>
    /\ last_flush' = 0 /\ calls' = 0
    /\ call_sizes' = <<>> /\ matches' = <<>> /\ items_base' = 0

\* main.py:237: the for loop over the playlists moves on, or main returns;
\* st is the state dictionary at that point
Continue(st) ==
    IF pl = Len(conf_playlists)
    THEN Halt /\ UNCHANGED at_start
    ELSE /\ pc' = "lookup" /\ pl' = pl + 1 /\ state' = st
         /\ UNCHANGED <<tracks, pos, tidal_playlist, done, batch, missing,
                        start_idx, batch_pos, missing_pos, last_flush, calls,
                        at_start, call_sizes, matches, items_base>>

\* the counters of the source positions ps of playlist nm, each raised by one
Bump(counts, nm, ps) ==
    [counts EXCEPT ![nm] = [k \in DOMAIN @ |-> IF k \in ps THEN @[k] + 1 ELSE @[k]]]

\* main.py:221-235: the program is started and loads the state file
Start ==
    /\ pc = "off"
    /\ run < MaxRuns
    /\ run' = run + 1
    /\ state' = load_state(disk)
    /\ pl' = 1
    /\ pc' = "lookup"
    /\ at_start' = [disk |-> load_state(disk), adds |-> adds]
    /\ report' = None
    /\ UNCHANGED <<tracks, pos, tidal_playlist, done, batch, missing, start_idx,
                   batch_pos, missing_pos, last_flush, calls, adds, skips,
                   failure, call_sizes, matches, items_base, created,
                   mvars, cvars, auto, wvars>>

\* SkipPlaylist with the default entry of main.py:247-248 made before the
\* test of main.py:243
SkipPlaylist_default_entry ==
    /\ pc = "lookup"
    /\ ~find_spotify_playlist_by_name(sp, playlist_name)
    /\ Continue(IF playlist_name \in DOMAIN state THEN state
                ELSE Put(state, playlist_name, [idx |-> 0, missing |-> <<>>]))
    /\ UNCHANGED <<run, adds, skips, failure, report, created, mvars, cvars, auto,
                   wvars>>

\* main.py:241-245: the source playlist is not found
SkipPlaylist ==
    /\ pc = "lookup"
    /\ ~find_spotify_playlist_by_name(sp, playlist_name)
    /\ Continue(state)
    /\ UNCHANGED <<run, adds, skips, failure, report, created, mvars, cvars, auto,
                   wvars>>

\* main.py:241-262: the source playlist is found; default state entry,
\* fetch, target playlist, the locals of the loop, the slice
BeginPlaylist ==
    /\ pc = "lookup"
    /\ find_spotify_playlist_by_name(sp, playlist_name)
    /\ LET st == IF playlist_name \in DOMAIN state THEN state
                 ELSE Put(state, playlist_name, [idx |-> 0, missing |-> <<>>])
           e  == ensure_tidal_playlist(tidal, prefix, playlist_name)
       IN  /\ state' = st
           /\ tidal' = e.listing
           /\ tidal_playlist' = e.playlist
           /\ start_idx' = st[playlist_name].idx
           /\ tracks' = slice(sp[playlist_name], st[playlist_name].idx)
           /\ items_base' = Len(e.listing[e.playlist].items)
           /\ created' = IF Len(e.listing) > Len(tidal)
                         THEN Append(created, e.listing[e.playlist].name)
                         ELSE created
    /\ done' = 0 /\ batch' = <<>> /\ missing' = <<>>
    /\ pos' = 0 /\ batch_pos' = <<>> /\ missing_pos' = <<>> /\ last_flush' = 0
    /\ calls' = 0
    /\ call_sizes' = <<>> /\ matches' = <<>>
    /\ pc' = "loop"
    /\ UNCHANGED <<run, pl, sp, disk, adds, skips, failure, at_start, report,
                   mvars, cvars, auto>>

\* main.py:264-275: one iteration of the track loop up to the test of the
\* batch length; the operator types the lines reads
SearchTrack ==
    /\ pc = "loop"
    /\ pos < Len(tracks)
    /\ \E reads \in ReadSeqs :
         LET t == tracks[pos + 1]
             r == search_tidal_by_name_and_artist(search(t.query), t, auto, reads)
             p == start_idx + pos + 1
         IN  /\ r.kind = "return"
             /\ IF r.value # None
                THEN /\ done' = done + 1
                     /\ batch' = Append(batch, r.value)
                     /\ batch_pos' = Append(batch_pos, p)
                     /\ matches' = Append(matches, [pos |-> p, id |-> r.value.id])
                     /\ UNCHANGED <<missing, missing_pos>>
                ELSE /\ missing' = Append(missing, t)
                     /\ missing_pos' = Append(missing_pos, p)
                     /\ UNCHANGED <<done, batch, batch_pos, matches>>
    /\ pos' = pos + 1
    /\ pc' = IF Len(batch') = batch_size THEN "flush" ELSE "loop"
    /\ UNCHANGED <<run, pl, state, tracks, tidal_playlist, start_idx, adds,
                   skips, last_flush, calls, failure, at_start, call_sizes,
                   items_base, report, created, mvars, cvars, auto, wvars>>

\* main.py:267, 209: the selection is past the end of the search result and
\* IndexError leaves main
SearchRaises ==
    /\ pc = "loop"
    /\ pos < Len(tracks)
    /\ \E reads \in ReadSeqs :
         LET t == tracks[pos + 1]
             r == search_tidal_by_name_and_artist(search(t.query), t, auto, reads)
         IN  r.kind = "IndexError"
    /\ Halt
    /\ at_start' = None
    /\ report' = None
    /\ UNCHANGED <<run, adds, skips, failure, created, mvars, cvars, auto, wvars>>

\* main.py:275-277: the batch is full and playlist.add succeeds
FlushFull ==
    /\ pc = "flush"
    /\ tidal' = add_tracks(tidal, tidal_playlist, batch)
    /\ adds' = Bump(adds, playlist_name, Range(batch_pos))
    /\ batch' = <<>>
    /\ batch_pos' = <<>>
    /\ last_flush' = pos
    /\ calls' = calls + 1
    /\ call_sizes' = call_sizes \o add_calls(batch)
    /\ pc' = "loop"
    /\ UNCHANGED <<run, pl, state, tracks, pos, tidal_playlist, done, missing,
                   start_idx, missing_pos, skips, failure, at_start, matches,
                   items_base, report, created, mvars, cvars, auto, sp, disk>>

\* WriteFailure with the exception caught around add_tracks: the loop goes
\* on as after a successful call
WriteFailure_swallowed ==
    /\ failure' = [run |-> run, name |-> playlist_name,
                   flushed |-> start_idx + last_flush,
                   chunk |-> Range(batch_pos),
                   chunk_start |-> batch_pos[1] - 1]
    /\ IF pc = "flush"
       THEN /\ pc' = "loop" /\ batch' = <<>> /\ batch_pos' = <<>>
       ELSE /\ pc' = "save" /\ UNCHANGED <<batch, batch_pos>>
    /\ UNCHANGED <<run, pl, state, tracks, pos, tidal_playlist, done, missing,
                   start_idx, missing_pos, last_flush, calls, at_start, adds,
                   skips, gvars, mvars, cvars, auto, wvars>>

\* the failure of playlist.add (main.py:217) on the batch: the exception is
\* caught nowhere and leaves main
WriteFailure ==
    /\ failure' = [run |-> run, name |-> playlist_name,
                   flushed |-> start_idx + last_flush,
                   chunk |-> Range(batch_pos),
                   chunk_start |-> batch_pos[1] - 1]
    /\ Halt
    /\ at_start' = None
    /\ report' = None
    /\ UNCHANGED <<run, adds, skips, created, mvars, cvars, auto, wvars>>

\* main.py:275-276: the batch is full and playlist.add fails
FlushFullFails ==
    /\ pc = "flush"
    /\ WriteFailure

\* main.py:279: the loop is over; the rest of the batch is added
FinalFlush ==
    /\ pc = "loop"
    /\ pos = Len(tracks)
    /\ tidal' = add_tracks(tidal, tidal_playlist, batch)
    /\ adds' = Bump(adds, playlist_name, Range(batch_pos))
    /\ calls' = IF batch = <<>> THEN calls ELSE calls + 1
    /\ call_sizes' = call_sizes \o add_calls(batch)
    /\ pc' = "save"
    /\ UNCHANGED <<run, pl, state, tracks, pos, tidal_playlist, done, batch,
                   missing, start_idx, batch_pos, missing_pos, skips,
                   last_flush, failure, at_start, matches, items_base,
                   report, created, mvars, cvars, auto, sp, disk>>

\* main.py:279: playlist.add fails on the rest of the batch
FinalFlushFails ==
    /\ pc = "loop"
    /\ pos = Len(tracks)
    /\ batch # <<>>
    /\ WriteFailure

\* main.py:281-291: the state entry is advanced and the state file written
SaveState ==
    /\ pc = "save"
    /\ LET st == [state EXCEPT ![playlist_name] = advance(@, tracks, missing)]
       IN  /\ disk' = st
           /\ Continue(st)
    /\ skips' = [skips EXCEPT ![playlist_name] = @ \cup Range(missing_pos)]
    /\ report' = [name |-> playlist_name, first |-> start_idx,
                  attempted |-> Len(tracks), matched |-> done,
                  unmatched |-> Len(missing), missing_pos |-> missing_pos]
    /\ UNCHANGED <<run, adds, failure, created, mvars, cvars, auto, sp, tidal>>

\* the process is killed between two steps
Interrupt ==
    /\ pc # "off"
    /\ Halt
    /\ at_start' = None
    /\ report' = None
    /\ UNCHANGED <<run, adds, skips, failure, created, mvars, cvars, auto, wvars>>

Next ==
    \/ Start
    \/ SkipPlaylist
    \/ BeginPlaylist
    \/ SearchTrack
    \/ SearchRaises
    \/ FlushFull
    \/ FlushFullFails
    \/ FinalFlush
    \/ FinalFlushFails
    \/ SaveState
    \/ Interrupt

Spec == Init /\ [][Next]_vars

(***************************************************************************)
(* Properties of the matcher, checked under SpecMatch.                     *)
(***************************************************************************)
\* the call has left search_tidal_by_name_and_artist by a return
Returned == mpc = "returned"

\* some candidate carries the source track's ISRC
HasExact == \E k \in 1..Len(results) : results[k].isrc = track.isrc

\* the rounded similarity score of candidate t against the source title
Score(t) == token_set_ratio(track.name, t.name)

\* C6: when some candidate's isrc equals the source track's isrc, the call
\* returns the first such candidate under either policy, without displaying
\* a ranking and without reading a line from the operator, whatever the
\* similarity scores are.
C6_ExactIdAuthoritative ==
    (mpc # "call" /\ HasExact) =>
        /\ Returned
        /\ prompts = 0
        /\ top_n = <<>>
        /\ \E k \in 1..Len(results) :
             /\ results[k].isrc = track.isrc
             /\ \A j \in 1..(k - 1) : results[j].isrc # track.isrc
             /\ ret = results[k]

\* an exact match was returned although it is neither the first candidate
\* nor the best scored one
C6_Witness ==
    /\ Returned
    /\ HasExact
    /\ ret.isrc = track.isrc
    /\ ret # results[1]
    /\ Score(ret) < Score(results[1])

\* C7: under the Auto policy, with a non-empty candidate list and no exact
\* match, the call returns the candidate with the highest similarity score,
\* the earliest of them in candidate order on a tie.
C7_AutoReturnsTopRanked ==
    (Returned /\ auto /\ results # <<>> /\ ~HasExact) =>
        \E k \in 1..Len(results) :
            /\ \A j \in 1..Len(results) : Score(results[j]) <= Score(results[k])
            /\ \A j \in 1..(k - 1) : Score(results[j]) < Score(results[k])
            /\ ret = results[k]

\* C8: under the Auto policy the call returns a track if and only if the
\* candidate list is non-empty, whatever the scores, and never reads a line
\* from the operator.
C8_AutoMatchesIffCandidates ==
    (auto /\ mpc # "call") =>
        /\ Returned
        /\ prompts = 0
        /\ (ret = None) <=> (results = <<>>)
        /\ ret # None => ret \in Range(results)

\* Auto returned a candidate that is no exact match and scores 0
C8_Witness ==
    /\ auto
    /\ Returned
    /\ ret # None
    /\ ~HasExact
    /\ Score(ret) = 0

\* C9: under the Interactive policy an empty line returns None and a valid
\* 1-based selection k returns the candidate displayed at position k.
C9_InteractiveReturnsDisplayed ==
    (Returned /\ prompts > 0) =>
        IF read = <<>> THEN ret = None
        ELSE ret = results[top_n[int(read)]]

\* C10: under the Interactive policy a line that is not a number, or not
\* the position of a displayed candidate, is rejected and the operator is
\* prompted again: it never produces a return value and never raises.
C10_InvalidInputReprompts ==
    /\ mpc # "raised"
    /\ (Returned /\ prompts > 0 /\ read # <<>>) =>
           /\ ~ValueError(read)
           /\ int(read) \in 1..Len(top_n)

(***************************************************************************)
(* Properties of main(), checked under Spec.                               *)
(***************************************************************************)
\* processedCount of playlist nm in the state file
PersistedIdx(nm) ==
    IF disk # None /\ nm \in DOMAIN disk THEN disk[nm].idx ELSE 0

\* main is between main.py:264 and main.py:284 for playlist_name
InPlaylist == pc \in {"loop", "flush", "save"}

\* C1: during the sync of a playlist the state file is rewritten after
\* every successful flush of a full batch: while the track loop goes on,
\* the persisted processedCount is the value at run start plus the number
\* of source tracks handled when the last flush succeeded.
C1_CheckpointAfterEveryFlush ==
    (pc = "loop" /\ last_flush > 0) =>
        PersistedIdx(playlist_name) = start_idx + last_flush

\* C2: as long as no bulk-add has failed, a source track whose counterpart
\* a successful flush already added, or that the state file records as
\* skipped, is not searched again, whatever interruptions and re-runs
\* happened in between.
C2_NoReprocessingAfterInterrupt ==
    [][(failure = None /\ pc = "loop" /\ pos' = pos + 1) =>
          /\ adds[playlist_name][start_idx + pos + 1] = 0
          /\ (start_idx + pos + 1) \notin skips[playlist_name]]_vars

\* C3: a bulk-add failure ends the run (the exception leaves the loop), in
\* that run the persisted processedCount of the playlist stays at or before
\* the first source track of the failed chunk, and later it passes a track
\* of the failed chunk only once that track was added or recorded skipped.
C3_FailureDoesNotAdvance ==
    failure # None =>
        /\ run = failure.run =>
              /\ pc = "off"
              /\ PersistedIdx(failure.name) <= failure.chunk_start
        /\ \A k \in failure.chunk :
              k <= PersistedIdx(failure.name) =>
                  \/ adds[failure.name][k] > 0
                  \/ k \in skips[failure.name]

\* a chunk failed after an earlier chunk of the same run had been added
C3_Witness ==
    /\ failure # None
    /\ run = failure.run
    /\ failure.chunk_start > 0
    /\ \E k \in 1..failure.chunk_start : adds[failure.name][k] > 0

\* C4: the run that follows a bulk-add failure resumes the playlist at the
\* failed chunk: after every chunk the failed run had flushed, and not past
\* the first source track of the failed chunk.
C4_RerunRetriesFailedChunk ==
    (failure # None /\ run = failure.run + 1 /\ InPlaylist
        /\ playlist_name = failure.name) =>
        /\ failure.flushed <= start_idx
        /\ start_idx <= failure.chunk_start

\* C5: when a run starts with processedCount of a playlist equal to the
\* length of its source track list, the run skips all of its tracks,
\* searches none, makes no playlist.add call, adds nothing, and leaves the
\* persisted processedCount and unmatched list of the playlist as they were.
C5_ResumptionIdempotence ==
    \A nm \in DOMAIN sp :
        (at_start # None /\ nm \in DOMAIN at_start.disk
            /\ at_start.disk[nm].idx = Len(sp[nm])) =>
            /\ disk # None
            /\ nm \in DOMAIN disk
            /\ disk[nm] = at_start.disk[nm]
            /\ adds[nm] = at_start.adds[nm]
            /\ (InPlaylist /\ playlist_name = nm) =>
                  /\ start_idx = Len(sp[nm])
                  /\ tracks = <<>>
                  /\ pos = 0 /\ done = 0 /\ batch = <<>> /\ missing = <<>>
                  /\ calls = 0
                  /\ pc # "flush"

\* a second run wrote the state file for a playlist the first run had
\* completed, with found and skipped tracks in it
C5_Witness ==
    /\ run = 2
    /\ pc = "off"
    /\ at_start # None
    /\ <<"p">> \in DOMAIN at_start.disk
    /\ at_start.disk[<<"p">>].idx = Len(sp[<<"p">>])
    /\ at_start.disk[<<"p">>].missing # <<>>
    /\ \E k \in 1..Len(sp[<<"p">>]) : adds[<<"p">>][k] > 0
    /\ tidal # <<>>

(***************************************************************************)
(* Properties of the batches, the report and the state entries.            *)
(***************************************************************************)

\* the items of the target playlist added since main.py:254
Appended ==
    LET items == tidal[tidal_playlist].items
    IN  SubSeq(items, items_base + 1, Len(items))

\* C11: with n tracks found so far in a playlist and batch size c, the
\* playlist.add calls made are floor((n - |batch|) / c) calls of c ids each
\* while the loop runs, and after the call of main.py:279 floor(n / c) calls
\* of c ids followed by one call of n mod c ids, which is absent when
\* n mod c = 0; no call carries more than c ids, and the calls together
\* carry the items appended to the target playlist.
C11_FullChunksThenRemainder ==
    [](InPlaylist =>
        LET full == IF pc = "save" THEN done \div batch_size
                    ELSE (done - Len(batch)) \div batch_size
            rest == IF pc = "save" THEN done % batch_size ELSE 0
        IN  /\ \A k \in 1..Len(call_sizes) : call_sizes[k] <= batch_size
            /\ Len(call_sizes) = full + (IF rest = 0 THEN 0 ELSE 1)
            /\ \A k \in 1..full : call_sizes[k] = batch_size
            /\ rest # 0 => call_sizes[full + 1] = rest
            /\ Len(Appended) = full * batch_size + rest)

\* a playlist with one full batch and a remainder, after main.py:279
C11_Witness ==
    /\ pc = "save"
    /\ done = batch_size + 1
    /\ call_sizes = <<batch_size, 1>>

\* C12: within one playlist the ids appended to the target playlist,
\* followed by the ids still in the batch, are the ids of the tracks found,
\* in source order: each is a result of the search for its source track,
\* the source positions increase, and they are the positions handled so far
\* that are not missing.
C12_AppendedInSourceOrder ==
    [](InPlaylist =>
        LET pending == IF pc = "save" THEN <<>>
                       ELSE [k \in 1..Len(batch) |-> batch[k].id]
        IN  /\ Appended \o pending = [k \in 1..Len(matches) |-> matches[k].id]
            /\ \A k \in 1..Len(matches) :
                 /\ k > 1 => matches[k - 1].pos < matches[k].pos
                 /\ \E j \in 1..Len(search(sp[playlist_name][matches[k].pos].query)) :
                      search(sp[playlist_name][matches[k].pos].query)[j].id
                          = matches[k].id
            /\ {matches[k].pos : k \in 1..Len(matches)}
                 = ((start_idx + 1)..(start_idx + pos)) \ Range(missing_pos))

\* two different tracks added by one call, then a third by the last call
C12_Witness ==
    /\ pc = "save"
    /\ Len(Appended) = 3
    /\ Appended[1] # Appended[2]
    /\ missing = <<>>

\* the entry of playlist nm in the state file when the run started
EntryAtStart(nm) ==
    IF nm \in DOMAIN at_start.disk THEN at_start.disk[nm]
    ELSE [idx |-> 0, missing |-> <<>>]

\* C13: when a playlist is done, the report has attempted = matched +
\* unmatched; every source track handled got one more add and is not among
\* the missing ones, or got no add and is among them; and the missing list
\* in the state file is the list at run start followed by exactly the
\* tracks for which nothing was found, in source order.
C13_EveryTrackAccounted ==
    [](report # None =>
        LET nm == report.name
            handled == (report.first + 1)..(report.first + report.attempted)
        IN  /\ report.attempted = report.matched + report.unmatched
            /\ Range(report.missing_pos) \subseteq handled
            /\ Len(report.missing_pos) = report.unmatched
            /\ \A k \in handled :
                 adds[nm][k] = at_start.adds[nm][k]
                     + (IF k \in Range(report.missing_pos) THEN 0 ELSE 1)
            /\ disk[nm].idx = EntryAtStart(nm).idx + report.attempted
            /\ disk[nm].missing = EntryAtStart(nm).missing \o
                   [k \in 1..Len(report.missing_pos) |->
                       sp[nm][report.missing_pos[k]]])

\* tracks A (same isrc), B (best score, auto) and C (no search result)
C13_Witness ==
    /\ auto
    /\ report # None
    /\ report.name = <<"p">>
    /\ sp[<<"p">>] = <<TrackA, TrackB, TrackC>>
    /\ report.attempted = 3 /\ report.matched = 2 /\ report.unmatched = 1
    /\ disk[<<"p">>].missing = <<TrackC>>

\* the playlists with an entry in the state file
PersistedNames == IF disk = None THEN {} ELSE DOMAIN disk

\* s is a prefix of t
IsPrefix(s, t) == Len(s) <= Len(t) /\ SubSeq(t, 1, Len(s)) = s

\* C15: no step of any run lowers the idx of a playlist in the state file,
\* removes its entry, or changes its missing list otherwise than by
\* appending to it.
C15_StateMonotone ==
    [][\A nm \in PersistedNames :
         /\ disk' # None
         /\ nm \in DOMAIN disk'
         /\ disk[nm].idx <= disk'[nm].idx
         /\ IsPrefix(disk[nm].missing, disk'[nm].missing)]_vars

\* a second run has rewritten the entry of a playlist the first run finished
C15_Witness ==
    /\ run = 2
    /\ report # None
    /\ report.name = <<"p">>
    /\ <<"p">> \in DOMAIN at_start.disk
    /\ at_start.disk[<<"p">>].idx = Len(sp[<<"p">>])
    /\ disk[<<"p">>].idx = Len(sp[<<"p">>])
    /\ disk[<<"p">>].missing # <<>>

\* the configured playlists the for loop of main.py:237 has left behind
PlaylistsPassed ==
    IF pc = "off"
    THEN (IF at_start = None THEN {} ELSE Range(conf_playlists))
    ELSE {conf_playlists[k] : k \in 1..(pl - 1)}

\* C16: a configured playlist that the source library does not have is
\* skipped: the step that finds it absent moves main to the next configured
\* playlist (or returns after the last one) and changes neither the target
\* listing, the adds, the created playlists nor the state file; and once the
\* loop is past it, it has no entry in the state dictionary or the state
\* file and no target playlist carries its prefixed name.
C16_AbsentPlaylistSkipped ==
    /\ [][(pc = "lookup"
            /\ ~find_spotify_playlist_by_name(sp, playlist_name)
            /\ at_start' # None) =>
              /\ IF pl < Len(conf_playlists)
                 THEN pc' = "lookup" /\ pl' = pl + 1
                 ELSE pc' = "off"
              /\ UNCHANGED <<tidal, disk, adds, created>>]_vars
    /\ [](\A nm \in PlaylistsPassed :
            ~find_spotify_playlist_by_name(sp, nm) =>
                /\ nm \notin DOMAIN state
                /\ nm \notin PersistedNames
                /\ \A k \in 1..Len(tidal) : tidal[k].name # prefix \o nm)

\* "q" was absent and skipped, "p" after it is done and saved
C16_Witness ==
    /\ ~find_spotify_playlist_by_name(sp, <<"q">>)
    /\ report # None
    /\ report.name = <<"p">>
    /\ report.matched > 0
    /\ PersistedNames = {<<"p">>}

\* the number of target playlists called nm
NamedCount(nm) == Cardinality({k \in 1..Len(tidal) : tidal[k].name = nm})

\* C19: a target playlist is created only when no playlist of the user has
\* the prefixed name, and is otherwise reused as it is; so no name is created
\* twice, over all runs, and a created name belongs to one playlist only.
C19_CreateOnlyIfAbsent ==
    /\ [][pc = "lookup" /\ pc' = "loop" =>
            LET full == prefix \o playlist_name
            IN  /\ tidal'[tidal_playlist'].name = full
                /\ IF \E k \in 1..Len(tidal) : tidal[k].name = full
                   THEN tidal' = tidal /\ created' = created
                   ELSE /\ tidal' = Append(tidal, [name |-> full, items |-> <<>>])
                        /\ created' = Append(created, full)]_vars
    /\ [](/\ \A j, k \in 1..Len(created) : created[j] = created[k] => j = k
          /\ \A k \in 1..Len(created) : NamedCount(created[k]) = 1)

\* the second run reuses for "p" the playlist the first run created
C19_Witness ==
    /\ run = 2
    /\ pc = "loop"
    /\ playlist_name = <<"p">>
    /\ prefix \o <<"p">> \in Range(created)
    /\ tidal[tidal_playlist].name = prefix \o <<"p">>
    /\ items_base > 0

\* C20: a step changes the entry of a playlist in the state file only when
\* it is the write of main.py:284 for that playlist; every other entry, and
\* every entry in steps that end the run, stays as it is; and while a later
\* playlist is handled, the entry of a playlist done earlier in the run is
\* in the file with the values the run computed for it.
C20_OtherEntriesKept ==
    /\ [][\A nm \in PersistedNames :
            (pc # "save" \/ nm # playlist_name) =>
                /\ disk' # None
                /\ nm \in DOMAIN disk'
                /\ disk'[nm] = disk[nm]]_vars
    /\ [](\A nm \in PlaylistsPassed :
            (pc # "off" /\ find_spotify_playlist_by_name(sp, nm)) =>
                /\ nm \in PersistedNames
                /\ disk[nm] = state[nm]
                /\ disk[nm].idx >= Len(sp[nm]))

\* the add for "p" failed after "q" was done in the same run
C20_Witness ==
    /\ pc = "off"
    /\ failure # None
    /\ failure.run = run
    /\ failure.name = <<"p">>
    /\ <<"q">> \in PersistedNames
    /\ disk[<<"q">>].idx = 1
    /\ run = 2 => <<"p">> \in PersistedNames

(***************************************************************************)
(* Properties of the exact pass and of the ranking, checked under          *)
(* SpecMatch.                                                              *)
(***************************************************************************)
\* C17: for a source track whose isrc is the empty string the exact pass
\* accepts no candidate and the call goes on to the similarity pass: with
\* candidates, Auto returns the first of them and Interactive displays the
\* ranking.
C17_ExactPassNeedsUniqueId ==
    (track.isrc = "" /\ results # <<>> /\ mpc # "call") =>
        IF auto THEN ret = results[1] ELSE top_n # <<>>

\* the ranking of the scores that is descending and, among equal scores,
\* keeps the order of the result list; its first min(n, N) entries
StableRanking(scores) ==
    LET N == Len(scores)
        p == CHOOSE q \in [1..N -> 1..N] :
                 /\ \A j, k \in 1..N : j # k => q[j] # q[k]
                 /\ \A k \in 1..(N - 1) :
                      \/ scores[q[k]] > scores[q[k + 1]]
                      \/ scores[q[k]] = scores[q[k + 1]] /\ q[k] < q[k + 1]
    IN  [k \in 1..Min(n, N) |-> p[k]]

\* C18: the candidates are displayed by descending score, candidates of
\* equal score in the order of the result list, and the displayed list is
\* the first min(9, N) entries of that ranking.
C18_RankingStableDescending ==
    mpc = "prompt" => top_n = StableRanking(fuzzy_scores(results, track.name))

(***************************************************************************)
(* Property of clean, checked under SpecClean.                             *)
(***************************************************************************)
\* C14: clean is idempotent: for every string, clean applied to the result
\* of clean returns that result.
C14_CleanIdempotent ==
    Len(cleaned) = 2 => cleaned[2] = cleaned[1]

====
